---- MODULE Spec2Model ----
\* ProductDetectionAgent (python/shopping_agent/product_detection.py): the
\* multi-source aggregation done by detect_products, search_products and
\* find_best_deal, and the mock-backed find_similar_products, track_price,
\* get_price_history and get_buying_options.  One agent is constructed; its
\* operations are then called in any order, each call against a "world" that
\* fixes what every external source, clock and random draw would answer for
\* that request (Spec).  ServerSpec is the Flask server of api_server.py
\* serving two concurrent clients with such an agent, FairServerSpec the
\* same server with every handler run to its end.
\*
\* Encodings.  A string that the code lower-cases or title-cases is a sequence
\* of character codes (ASCII).  A dict is a record; a key the dict lacks is a
\* field the record lacks.  Scores (confidence, relevance) are in tenths
\* (0.7 is 7); prices are in cents.
EXTENDS Integers, Sequences, FiniteSets, TLC

VARIABLES settings, api_keys, available_apis, pc, call, world, merged, errors, asked, result

\* The API server (python/shopping_agent/api_server.py) in front of the
\* agent: the request each client has in flight, and the upload folder
VARIABLES requests, uploads

agent == <<settings, api_keys, available_apis, pc, call, world, merged, errors, asked, result>>
vars == <<agent, requests, uploads>>

\* ------------------------------------------------------------------ bounds
MaxLen == 2          \* longest list a vision adapter or an OpenAI platform answer holds
MaxK == 3            \* largest max_results / max_results_per_platform requested
MaxDealLen == 1      \* longest OpenAI answer per platform in find_best_deal
MaxGarbled == 1      \* most unparseable completions a request gets before one that parses
RecursionLimit == 3  \* nested _generate_mock_results calls the interpreter allows
MaxDays == 2         \* longest price history whose random draws are all enumerated

\* ------------------------------------------------------- program constants
DEFAULT_CONFIDENCE_THRESHOLD == 7
DEFAULT_MAX_RESULTS == 5
DEFAULT_TIMEOUT == 30

\* --------------------------------------------------------------- strings
IsUpper(c) == c \in 65..90
IsLower(c) == c \in 97..122
IsAlpha(c) == IsUpper(c) \/ IsLower(c)
LowerChar(c) == IF IsUpper(c) THEN c + 32 ELSE c
UpperChar(c) == IF IsLower(c) THEN c - 32 ELSE c

\* str.lower()
Lower(s) == [i \in 1..Len(s) |-> LowerChar(s[i])]

\* str.title(): a letter that follows a non-letter is upper-cased, any other
\* letter is lower-cased
Title(s) ==
    [i \in 1..Len(s) |->
        IF i = 1 \/ ~IsAlpha(s[i - 1]) THEN UpperChar(s[i]) ELSE LowerChar(s[i])]

\* JSON null in the "name" of an OpenAI item: item.get("name", ...) is then
\* None, and None.lower() raises AttributeError.  Code 0 occurs in no name.
None == <<0>>

Shoe == <<83, 104, 111, 101>>        \* "Shoe"
shoe == <<115, 104, 111, 101>>       \* "shoe"
Bag == <<66, 97, 103>>               \* "Bag"
Hat == <<72, 97, 116>>               \* "Hat"
Tv == <<84, 118>>                    \* "Tv"
tv == <<116, 118>>                   \* "tv"
Pc == <<80, 99>>                     \* "Pc"

\* ------------------------------------------------------------ sequences
Range(s) == {s[i] : i \in 1..Len(s)}

Min(a, b) == IF a <= b THEN a ELSE b

\* All sequences over S of length at most n
RECURSIVE SeqsUpTo(_, _)
SeqsUpTo(S, n) ==
    IF n = 0 THEN {<<>>}
    ELSE LET shorter == SeqsUpTo(S, n - 1)
         IN shorter \cup {Append(s, x) : s \in {t \in shorter : Len(t) = n - 1}, x \in S}

\* seq[:k] for k >= 0
Truncate(seq, k) == SubSeq(seq, 1, Min(k, Len(seq)))

\* The order sorted(..., reverse=True) puts the indices 1..n of `keys` in:
\* descending by key, and stable (elements with equal keys keep their
\* original order, also under reverse=True).
RECURSIVE SortIdxTiesReversed(_, _)
SortIdxTiesReversed(keys, n) ==
    IF n = 0 THEN <<>>
    ELSE LET prev == SortIdxTiesReversed(keys, n - 1)
             pos == Cardinality({j \in 1..(n - 1) : keys[prev[j]] > keys[n]})
         IN SubSeq(prev, 1, pos) \o <<n>> \o SubSeq(prev, pos + 1, n - 1)

RECURSIVE SortIdxAscending(_, _)
SortIdxAscending(keys, n) ==
    IF n = 0 THEN <<>>
    ELSE LET prev == SortIdxAscending(keys, n - 1)
             pos == Cardinality({j \in 1..(n - 1) : keys[prev[j]] <= keys[n]})
         IN SubSeq(prev, 1, pos) \o <<n>> \o SubSeq(prev, pos + 1, n - 1)

RECURSIVE SortIdx(_, _)
SortIdx(keys, n) ==
    IF n = 0 THEN <<>>
    ELSE LET prev == SortIdx(keys, n - 1)
             pos == Cardinality({j \in 1..(n - 1) : keys[prev[j]] >= keys[n]})
         IN SubSeq(prev, 1, pos) \o <<n>> \o SubSeq(prev, pos + 1, n - 1)

\* sorted(seq, key=..., reverse=True), the keys given alongside
SortedDesc(seq, keys) ==
    LET idx == SortIdx(keys, Len(seq))
    IN [i \in 1..Len(seq) |-> seq[idx[i]]]

\* ------------------------------------------------------------ candidates
\* p.get("confidence", 0)
Confidence(p) == IF "confidence" \in DOMAIN p THEN p.confidence ELSE 0

\* x.get("relevance", 0)
Relevance(x) == IF "relevance" \in DOMAIN x THEN x.relevance ELSE 0

\* options.get(key, default)
OptGet(options, key, default) ==
    IF key \in DOMAIN options THEN options[key] ELSE default

\* An external source's answer to one request: it raises, or returns items
Raises == [raised |-> TRUE, items |-> <<>>]
Returns(items) == [raised |-> FALSE, items |-> items]

\* The state a handler threads through its try blocks: the list built so far,
\* the adapters whose except clause ran (each logs an error), the external
\* sources invoked so far, in order, and whether an exception is propagating
\* out of the handler
Started == [raised |-> FALSE, list |-> <<>>, errors |-> {}, asked |-> <<>>]

Extend(st, source, items) ==
    [st EXCEPT !.list = @ \o items, !.asked = Append(@, source)]

\* except Exception as e: logger.error(...)
Caught(st, source, adapter) ==
    [st EXCEPT !.errors = @ \cup {adapter}, !.asked = Append(@, source)]

\* an exception no try block of the handler encloses
Propagates(st, source) ==
    [st EXCEPT !.raised = TRUE, !.asked = Append(@, source)]

\* ------------------------------------------------------- detect_products
\* try: products = self._detect_with_google_vision(...);
\*      detected_products.extend(products)
\* except Exception: logger.error(...)
DetectGoogleUnguarded(apis, w, st) ==
    IF "google_cloud_vision" \notin apis THEN st
    ELSE IF w.google.raised THEN Propagates(st, "google_cloud_vision")
    ELSE Extend(st, "google_cloud_vision", w.google.items)

DetectGoogle(apis, w, st) ==
    IF "google_cloud_vision" \notin apis THEN st
    ELSE IF w.google.raised
         THEN Caught(st, "google_cloud_vision", "google_cloud_vision")
         ELSE Extend(st, "google_cloud_vision", w.google.items)

\* for product in products:
\*     if product["name"].lower() not in existing_names:
\*         detected_products.append(product); existing_names.add(...)
\* The loop appends in place; product["name"].lower() raises on a None name
\* and leaves what was appended before it.
RECURSIVE MergeLoopNoDedup(_, _, _, _)
MergeLoopNoDedup(detected, existing_names, products, i) ==
    IF i > Len(products) THEN [raised |-> FALSE, list |-> detected]
    ELSE IF products[i].name = None THEN [raised |-> TRUE, list |-> detected]
    ELSE MergeLoopNoDedup(Append(detected, products[i]), existing_names, products, i + 1)

RECURSIVE MergeLoop(_, _, _, _)
MergeLoop(detected, existing_names, products, i) ==
    IF i > Len(products) THEN [raised |-> FALSE, list |-> detected]
    ELSE IF products[i].name = None THEN [raised |-> TRUE, list |-> detected]
    ELSE IF Lower(products[i].name) \notin existing_names
         THEN MergeLoop(Append(detected, products[i]),
                        existing_names \cup {Lower(products[i].name)}, products, i + 1)
         ELSE MergeLoop(detected, existing_names, products, i + 1)

\* if "openai" in self.available_apis and
\*    (not detected_products or len(detected_products) < max_results):
OpenaiConsulted(apis, detected, max_results) ==
    /\ "openai" \in apis
    /\ (detected = <<>> \/ Len(detected) < max_results)

DetectOpenai(apis, w, max_results, st) ==
    IF ~OpenaiConsulted(apis, st.list, max_results) THEN st
    ELSE IF w.openai.raised THEN Caught(st, "openai", "openai")
    ELSE LET existing_names == {Lower(p.name) : p \in Range(st.list)}
             m == MergeLoop(st.list, existing_names, w.openai.items, 1)
         IN [st EXCEPT !.list = m.list,
                       !.asked = Append(@, "openai"),
                       !.errors = IF m.raised THEN @ \cup {"openai"} ELSE @]

\* [p for p in detected_products if p.get("confidence", 0) >= confidence_threshold]
FilterPositiveConfidence(detected, confidence_threshold) ==
    SelectSeq(detected, LAMBDA p : Confidence(p) >= confidence_threshold /\ Confidence(p) > 0)

FilterByConfidence(detected, confidence_threshold) ==
    SelectSeq(detected, LAMBDA p : Confidence(p) >= confidence_threshold)

\* sorted(filtered_products, key=lambda p: p.get("confidence", 0), reverse=True)[:max_results]
SortByConfidence(products, max_results) ==
    Truncate(SortedDesc(products, [i \in 1..Len(products) |-> Confidence(products[i])]),
             max_results)

\* The outcome of a call: what it returned, or that it raised; with the list
\* as merged before filtering, sorting and truncation, the adapters whose
\* failure was caught and logged, and the sources invoked.
Outcome(st, value) ==
    [status |-> IF st.raised THEN "raised" ELSE "returned",
     value |-> IF st.raised THEN <<>> ELSE value,
     merged |-> st.list,
     errors |-> st.errors,
     asked |-> st.asked]

detect_products(stg, apis, w, options) ==
    LET confidence_threshold == OptGet(options, "confidence_threshold", stg.confidence_threshold)
        max_results == OptGet(options, "max_results", stg.max_results)
        s1 == DetectGoogle(apis, w, Started)
        s2 == IF s1.raised THEN s1 ELSE DetectOpenai(apis, w, max_results, s1)
    IN Outcome(s2, SortByConfidence(FilterByConfidence(s2.list, confidence_threshold),
                                    max_results))

\* ------------------------------------------------ _generate_mock_results
\* price_range=None
NoRange == <<>>

\* The "simple mock data without OpenAI": max_results items, item i (from 0)
\* named "<Query Title> <chr(65+i)>", price 19.99 + 10 i moved into the
\* price range, relevance 0.9 - 0.1 i.  The fields not listed are constants
\* of i and the platform and are carried through unchanged.
MockPrice(i, price_range) ==
    LET price == 1999 + i * 1000
    IN IF price_range = NoRange THEN price
       ELSE IF price < price_range[1] THEN price_range[1] + i * 500
       ELSE IF price > price_range[2] THEN price_range[2] - i * 500
       ELSE price

SimpleMock(query, price_range, max_results, platform) ==
    [n \in 1..max_results |->
        [name |-> Title(query) \o <<32, 65 + (n - 1)>>,
         price |-> MockPrice(n - 1, price_range),
         platform |-> platform,
         relevance |-> 9 - (n - 1)]]

\* The completions of one request, in the order they are made: the first
\* w.garbled of them come back with content json.loads rejects (a bracketed
\* array that is not JSON, or no content), each later one is what w holds for
\* the platform asked about: the call raises, or its content parses to items
\* (the array found, or the flat objects found when there is no array).
ContentParses(w, made) == made + 1 > w.garbled

\* Without OpenAI the simple mock list.  With it the completion call, which
\* raises out of the function or whose parsed content is returned as it is;
\* content that does not parse is logged and answered by
\* self._generate_mock_results(...) again, with OpenAI still configured.
\* `made` counts the completions of the request made before this one, `depth`
\* the calls of the function this one is nested in; the result counts the
\* completions this call made.  A call nested deeper than the interpreter
\* allows raises RecursionError, which no frame of the function catches.
RECURSIVE mock_results(_, _, _, _, _, _, _, _)
mock_results(apis, w, made, depth, query, price_range, max_results, platform) ==
    IF "openai" \notin apis
    THEN [raised |-> FALSE, calls |-> 0,
          items |-> SimpleMock(query, price_range, max_results, platform)]
    ELSE IF depth >= RecursionLimit
         THEN [raised |-> TRUE, calls |-> 0, items |-> <<>>]
    ELSE IF ~ContentParses(w, made)
         THEN LET again == mock_results(apis, w, made + 1, depth + 1, query,
                                        price_range, max_results, platform)
              IN [again EXCEPT !.calls = @ + 1]
    ELSE IF w[platform].raised
         THEN [raised |-> TRUE, calls |-> 1, items |-> <<>>]
    ELSE [raised |-> FALSE, calls |-> 1, items |-> w[platform].items]

generate_mock_results(apis, w, made, query, price_range, max_results, platform) ==
    mock_results(apis, w, made, 0, query, price_range, max_results, platform)

\* the completions a fetch made, logged under the platform they were for
Logged(st, platform, r) == st.asked \o [i \in 1..r.calls |-> platform]

\* A platform fetch: its items extend all_results, or its exception is caught
\* and logged
Fetched(st, platform, adapter, r) ==
    LET s == IF r.raised THEN Caught(st, platform, adapter)
             ELSE Extend(st, platform, r.items)
    IN [s EXCEPT !.asked = Logged(st, platform, r)]

FetchedUnguarded(st, platform, adapter, r) ==
    LET s == IF r.raised THEN Propagates(st, platform)
             ELSE Extend(st, platform, r.items)
    IN [s EXCEPT !.asked = Logged(st, platform, r)]

\* ------------------------------------------------------- search_products
\* _search_amazon, _search_walmart, _search_ebay are the methods defined
SearchMethods == {"amazon", "walmart", "ebay"}

\* the platform each _search_<name> passes to _generate_mock_results
MethodPlatform == [amazon |-> "Amazon", walmart |-> "Walmart", ebay |-> "eBay"]

\* api_name.replace('_api', '') for the names of the loop
OtherApis == <<"walmart_api", "ebay_api", "shopify_api", "etsy_api">>
ApiMethod ==
    [walmart_api |-> "walmart", ebay_api |-> "ebay",
     shopify_api |-> "shopify", etsy_api |-> "etsy"]

\* if "amazon_product_api" in self.available_apis: try: ... except: ...
SearchAmazon(apis, w, query, price_range, max_results, st) ==
    IF "amazon_product_api" \notin apis THEN st
    ELSE Fetched(st, "Amazon", "amazon_product_api",
                 generate_mock_results(apis, w, Len(st.asked), query, price_range,
                                       max_results, "Amazon"))

\* for api_name in [...]: if api_name in self.available_apis: try:
\*     if hasattr(self, method_name) ...: results = ...; all_results.extend(results)
RECURSIVE SearchOthers(_, _, _, _, _, _, _)
SearchOthers(apis, w, query, price_range, max_results, i, st) ==
    IF i > Len(OtherApis) THEN st
    ELSE LET api_name == OtherApis[i]
             method == ApiMethod[api_name]
             next == IF api_name \in apis /\ method \in SearchMethods
                     THEN Fetched(st, MethodPlatform[method], api_name,
                                  generate_mock_results(apis, w, Len(st.asked), query,
                                                        price_range, max_results,
                                                        MethodPlatform[method]))
                     ELSE st
         IN SearchOthers(apis, w, query, price_range, max_results, i + 1, next)

SearchPlatforms(apis, w, query, price_range, max_results) ==
    SearchOthers(apis, w, query, price_range, max_results, 1,
                 SearchAmazon(apis, w, query, price_range, max_results, Started))

FallbackWithOpenai(apis, all_results) == "openai" \in apis

\* if not all_results and "openai" in self.available_apis:
FallbackConsulted(apis, all_results) == all_results = <<>> /\ "openai" \in apis

SearchFallbackUnguarded(apis, w, query, price_range, max_results, st) ==
    IF ~FallbackConsulted(apis, st.list) THEN st
    ELSE FetchedUnguarded(st, "Various", "openai",
                          generate_mock_results(apis, w, Len(st.asked), query, price_range,
                                                max_results, "Various"))

SearchFallback(apis, w, query, price_range, max_results, st) ==
    IF ~FallbackConsulted(apis, st.list) THEN st
    ELSE Fetched(st, "Various", "openai",
                 generate_mock_results(apis, w, Len(st.asked), query, price_range,
                                       max_results, "Various"))

\* sorted(all_results, key=lambda x: x.get("relevance", 0), reverse=True)[:max_results]
SortByRelevance(all_results, max_results) ==
    Truncate(SortedDesc(all_results,
                        [i \in 1..Len(all_results) |-> Relevance(all_results[i])]),
             max_results)

search_products(stg, apis, w, query, options) ==
    LET max_results == OptGet(options, "max_results", stg.max_results)
        price_range == OptGet(options, "price_range", NoRange)
        s1 == SearchPlatforms(apis, w, query, price_range, max_results)
        s2 == SearchFallback(apis, w, query, price_range, max_results, s1)
    IN Outcome(s2, SortByRelevance(s2.list, max_results))

\* -------------------------------------------------------- find_best_deal
Platforms == <<"Amazon", "Walmart", "eBay", "Target", "BestBuy">>

\* platform.lower()
PlatformLower ==
    [Amazon |-> "amazon", Walmart |-> "walmart", eBay |-> "ebay",
     Target |-> "target", BestBuy |-> "bestbuy"]

\* f"{p.lower()}_api"
PlatformApi ==
    [Amazon |-> "amazon_api", Walmart |-> "walmart_api", eBay |-> "ebay_api",
     Target |-> "target_api", BestBuy |-> "bestbuy_api"]

\* [p for p in platforms if f"{p.lower()}_api" in self.available_apis],
\* all the platforms when that is empty
AvailablePlatforms(apis) ==
    LET found == SelectSeq(Platforms, LAMBDA p : PlatformApi[p] \in apis)
    IN IF found = <<>> THEN Platforms ELSE found

\* for platform in available_platforms: the platforms with a _search_ method
\* are fetched inside try/except, the others by a bare call
RECURSIVE DealLoop(_, _, _, _, _, _, _)
DealLoop(apis, w, product_name, max_results, platforms, i, st) ==
    IF st.raised \/ i > Len(platforms) THEN st
    ELSE LET platform == platforms[i]
             r == generate_mock_results(apis, w, Len(st.asked), product_name, NoRange,
                                        max_results, platform)
             next == IF PlatformLower[platform] \in SearchMethods
                     THEN Fetched(st, platform, platform, r)
                     ELSE FetchedUnguarded(st, platform, platform, r)
         IN DealLoop(apis, w, product_name, max_results, platforms, i + 1, next)

HasPrice(x) == "price" \in DOMAIN x

\* x.get("price", 0)
PriceOr0(x) == IF HasPrice(x) THEN x.price ELSE 0

\* key(a) < key(b) for key = lambda x: x.get("price", float("inf"))
PriceBelow(a, b) == HasPrice(a) /\ (~HasPrice(b) \/ a.price < b.price)

BestIndexPriceOr0(all_results) ==
    CHOOSE i \in 1..Len(all_results) :
        /\ \A j \in 1..Len(all_results) : PriceOr0(all_results[j]) >= PriceOr0(all_results[i])
        /\ \A j \in 1..(i - 1) : PriceOr0(all_results[i]) < PriceOr0(all_results[j])

\* min(all_results, key=...): the first item no other item is below
BestIndex(all_results) ==
    CHOOSE i \in 1..Len(all_results) :
        /\ \A j \in 1..Len(all_results) : ~PriceBelow(all_results[j], all_results[i])
        /\ \A j \in 1..(i - 1) : PriceBelow(all_results[i], all_results[j])

RECURSIVE SumPrices(_, _)
SumPrices(all_results, n) ==
    IF n = 0 THEN 0 ELSE SumPrices(all_results, n - 1) + PriceOr0(all_results[n])

\* best_deal["comparison"] = {...}; average_price is price_sum / total_results
\* and savings is average_price - best_deal.get("price", 0), kept as the
\* exact integers they are computed from
WithComparisonPriceDefaulted(best_deal, all_results, available_platforms) ==
    [f \in DOMAIN best_deal \cup {"comparison", "price"} |->
        IF f = "comparison"
        THEN [price_sum |-> SumPrices(all_results, Len(all_results)),
              total_results |-> Len(all_results),
              best_price |-> PriceOr0(best_deal),
              platforms_searched |-> available_platforms]
        ELSE IF f = "price" THEN PriceOr0(best_deal)
        ELSE best_deal[f]]

WithComparison(best_deal, all_results, available_platforms) ==
    [f \in DOMAIN best_deal \cup {"comparison"} |->
        IF f = "comparison"
        THEN [price_sum |-> SumPrices(all_results, Len(all_results)),
              total_results |-> Len(all_results),
              best_price |-> PriceOr0(best_deal),
              platforms_searched |-> available_platforms]
        ELSE best_deal[f]]

NoResultsFound == [error |-> "No results found"]

find_best_deal(apis, w, product_name, options) ==
    LET max_results_per_platform == OptGet(options, "max_results_per_platform", 3)
        available_platforms == AvailablePlatforms(apis)
        s == DealLoop(apis, w, product_name, max_results_per_platform,
                      available_platforms, 1, Started)
    IN Outcome(s, IF s.list = <<>> THEN NoResultsFound
                  ELSE WithComparison(s.list[BestIndex(s.list)], s.list,
                                      available_platforms))

\* ------------------------------------------------- find_similar_products
Colon == 58

\* s.split(":", 1)[1] for a string s that holds a colon
AfterColon(s) ==
    LET i == CHOOSE i \in 1..Len(s) : s[i] = Colon /\ \A j \in 1..(i - 1) : s[j] # Colon
    IN SubSeq(s, i + 1, Len(s))

\* f"Product {product_id}", or what follows the first colon of product_id
SimilarName(product_id) ==
    IF Colon \in Range(product_id) THEN AfterColon(product_id)
    ELSE <<80, 114, 111, 100, 117, 99, 116, 32>> \o product_id

\* similar_products = self._generate_mock_results(product_name,
\*     max_results=max_results, platform=platform), in no try block
find_similar_products(stg, apis, w, product_id, platform, options) ==
    LET max_results == OptGet(options, "max_results", stg.max_results)
        r == generate_mock_results(apis, w, 0, SimilarName(product_id), NoRange,
                                   max_results, platform)
        s == FetchedUnguarded(Started, platform, platform, r)
    IN Outcome(s, s.list)

\* ------------------------------------------------------------ track_price
\* int(x) of a time in tenths of a second
WholeSeconds(t) == t \div 10

\* `clock` holds the two readings the call takes: time.time() and
\* datetime.now(); nothing is stored
track_price(product_id, platform, options, clock) ==
    [status |-> "returned",
     value |-> [tracking_id |-> <<"track", WholeSeconds(clock.time), product_id>>,
                product_id |-> product_id,
                platform |-> platform,
                target_price |-> OptGet(options, "target_price", None),
                notify_email |-> OptGet(options, "notify_email", None),
                notify_phone |-> OptGet(options, "notify_phone", None),
                created_at |-> clock.now,
                status |-> "active"],
     merged |-> <<>>, errors |-> {}, asked |-> <<>>]

\* ----------------------------------------------------- get_buying_options
\* round(n / d, 2) for a price of n / d cents, halves upwards
RoundDiv(n, d) == (2 * n + d) \div (2 * d)

Seller(name, rating, price) == [name |-> name, rating |-> rating, price |-> price]

\* new_price is random.uniform(80, 120), here in tenths of a cent; every
\* price of the answer is new_price times a factor, rounded to cents
get_buying_options(product_name, options, new_price) ==
    LET P(percent) == RoundDiv(new_price * percent, 1000)
    IN [status |-> "returned",
        value |->
          [product_name |-> product_name,
           options |->
             [new |-> [price |-> P(100),
                       sellers |-> <<Seller("Official Store", 48, P(100)),
                                     Seller("MegaRetailer", 46, P(105)),
                                     Seller("ElectronicsPlus", 45, P(102))>>],
              used |-> [price |-> P(70),
                        sellers |-> <<Seller("TechReseller", 43, P(70)),
                                      Seller("ValueDeals", 41, P(65)),
                                      Seller("QualityUsed", 44, P(75))>>],
              refurbished |-> [price |-> P(85),
                               sellers |-> <<Seller("RefurbMaster", 45, P(85)),
                                             Seller("RenewTech", 44, P(82)),
                                             Seller("CertifiedRenew", 46, P(88))>>]],
           best_value |-> "refurbished"],
        merged |-> <<>>, errors |-> {}, asked |-> <<>>]

\* ------------------------------------------------------ get_price_history
IsDigit(c) == c \in 48..57

\* str.isdigit()
IsDigits(s) == s # <<>> /\ \A i \in 1..Len(s) : IsDigit(s[i])

\* float(s) of a string of digits
RECURSIVE DigitsValue(_)
DigitsValue(s) ==
    IF s = <<>> THEN 0
    ELSE 10 * DigitsValue(SubSeq(s, 1, Len(s) - 1)) + (s[Len(s)] - 48)

\* base_price, in cents: 99.99, or float(product_id) % 100 + 50
BasePrice(product_id) ==
    IF IsDigits(product_id) THEN ((DigitsValue(product_id) % 100) + 50) * 100 ELSE 9999

IsLeap(y) == (y % 4 = 0 /\ y % 100 # 0) \/ y % 400 = 0

DaysInMonth(y, m) ==
    IF m = 2 THEN (IF IsLeap(y) THEN 29 ELSE 28)
    ELSE IF m \in {4, 6, 9, 11} THEN 30 ELSE 31

\* d - timedelta(days=1)
DayBefore(d) ==
    IF d.day > 1 THEN [d EXCEPT !.day = @ - 1]
    ELSE IF d.month > 1
         THEN [year |-> d.year, month |-> d.month - 1,
               day |-> DaysInMonth(d.year, d.month - 1)]
         ELSE [year |-> d.year - 1, month |-> 12, day |-> 31]

\* current_date - timedelta(days=i)
RECURSIVE DaysBefore(_, _)
DaysBefore(d, i) == IF i = 0 THEN d ELSE DaysBefore(DayBefore(d), i - 1)

TwoDigits(n) == <<48 + (n \div 10), 48 + (n % 10)>>

\* date.strftime("%Y-%m-%d")
FormatDate(d) ==
    TwoDigits(d.year \div 100) \o TwoDigits(d.year % 100) \o <<45>>
        \o TwoDigits(d.month) \o <<45>> \o TwoDigits(d.day)

\* a < b for two strings
RECURSIVE StrLess(_, _)
StrLess(a, b) ==
    IF b = <<>> THEN FALSE
    ELSE IF a = <<>> THEN TRUE
    ELSE IF Head(a) # Head(b) THEN Head(a) < Head(b)
    ELSE StrLess(Tail(a), Tail(b))

\* the order price_history.sort(key=lambda x: x["date"]) puts the indices in:
\* ascending by date string, stable
RECURSIVE SortByDateIdx(_, _)
SortByDateIdx(keys, n) ==
    IF n = 0 THEN <<>>
    ELSE LET prev == SortByDateIdx(keys, n - 1)
             pos == Cardinality({j \in 1..(n - 1) : ~StrLess(keys[n], keys[prev[j]])})
         IN SubSeq(prev, 1, pos) \o <<n>> \o SubSeq(prev, pos + 1, n - 1)

\* the entry of day i (from 0): base_price * (1 + random.uniform(-0.2, 0.2)),
\* times 0.9 every 7th day and 0.8 every 30th, rounded to cents; the draw
\* gives 1 + uniform in hundredths and whether random.random() > 0.1
HistoryEntry(base_price, today, i, draw) ==
    LET weekly == IF i % 7 = 0 THEN 9 ELSE 10
        monthly == IF i % 30 = 0 THEN 8 ELSE 10
    IN [date |-> FormatDate(DaysBefore(today, i)),
        price |-> RoundDiv(base_price * draw.factor * weekly * monthly, 10000),
        currency |-> "USD",
        in_stock |-> draw.in_stock]

RECURSIVE SumOfPrices(_, _)
SumOfPrices(history, n) ==
    IF n = 0 THEN 0 ELSE SumOfPrices(history, n - 1) + history[n].price

\* w gives the date of datetime.now() and the random draws, one per day.
\* min(), max() and the division by len() are outside any try block: they
\* raise on an empty price_history.  average_price is kept as the exact
\* fraction total / entries.
get_price_history(product_id, platform, options, w) ==
    LET days == OptGet(options, "days", 30)
        base_price == BasePrice(product_id)
        made == [n \in 1..days |-> HistoryEntry(base_price, w.today, n - 1, w.draws[n])]
        idx == SortByDateIdx([n \in 1..days |-> made[n].date], Len(made))
        price_history == [n \in 1..Len(made) |-> made[idx[n]]]
        prices == {price_history[n].price : n \in 1..Len(price_history)}
    IN IF price_history = <<>>
       THEN [status |-> "raised", value |-> <<>>,
             merged |-> <<>>, errors |-> {}, asked |-> <<>>]
       ELSE [status |-> "returned",
             value |->
               [product_id |-> product_id,
                platform |-> platform,
                currency |-> "USD",
                price_history |-> price_history,
                lowest_price |-> CHOOSE p \in prices : \A q \in prices : p <= q,
                highest_price |-> CHOOSE p \in prices : \A q \in prices : p >= q,
                average_price |-> [total |-> SumOfPrices(price_history, Len(price_history)),
                                   entries |-> Len(price_history)],
                current_price |-> price_history[Len(price_history)].price],
             merged |-> <<>>, errors |-> {}, asked |-> <<>>]

\* ------------------------------------------------------------ the worlds
\* What the vision adapters can answer.  Both adapters always set "name",
\* "confidence" and "type"; Google Vision names are strings; Google items have
\* type "object", "brand" or "label", OpenAI items type "product".
Product(name, confidence, type) ==
    [name |-> name, confidence |-> confidence, type |-> type]

GooglePool ==
    {Product(Shoe, 7, "object"), Product(Shoe, -1, "label"),
     Product(Bag, 7, "object"), Product(Bag, 9, "brand")}

OpenaiPool ==
    {Product(shoe, 9, "product"), Product(shoe, -1, "product"),
     Product(Hat, 7, "product"), Product(Hat, 9, "product"),
     Product(None, 9, "product")}

Answers(pool, n) == {Raises} \cup {Returns(items) : items \in SeqsUpTo(pool, n)}

NotConfigured == Returns(<<>>)

DetectWorlds(apis) ==
    {[google |-> g, openai |-> o] :
        g \in (IF "google_cloud_vision" \in apis THEN Answers(GooglePool, MaxLen)
               ELSE {NotConfigured}),
        o \in (IF "openai" \in apis THEN Answers(OpenaiPool, MaxLen)
               ELSE {NotConfigured})}

DetectOptions ==
    LET ks == {<<>>} \cup {[max_results |-> k] : k \in 0..MaxK}
    IN ks \cup {[x \in DOMAIN o \cup {"confidence_threshold"} |->
                    IF x = "confidence_threshold" THEN -1 ELSE o[x]] : o \in ks}

\* What OpenAI can answer for a platform search: items named alike up to
\* case, with a positive, a negative or no relevance
SearchPool(platform) ==
    {[name |-> Tv, price |-> 1000, platform |-> platform, relevance |-> 9],
     [name |-> tv, price |-> 1000, platform |-> platform, relevance |-> -1],
     [name |-> Pc, price |-> 1000, platform |-> platform, relevance |-> 9],
     [name |-> Pc, price |-> 1000, platform |-> platform]}

\* the api key whose presence makes search_products fetch a platform
SearchApi == [Amazon |-> "amazon_product_api", Walmart |-> "walmart_api", eBay |-> "ebay_api"]

SearchAnswers(apis, platform) ==
    IF "openai" \in apis /\ SearchApi[platform] \in apis
    THEN Answers(SearchPool(platform), MaxLen)
    ELSE {NotConfigured}

\* how many of the request's first completions come back unparsable
Garblings(apis) == IF "openai" \in apis THEN 0..MaxGarbled ELSE {0}

\* More unparsable completions than one request makes: none of them parses,
\* and what a parsed one would hold is not part of the world
Unparseable == 2 * RecursionLimit * RecursionLimit

NothingParses(apis, platforms) ==
    IF "openai" \in apis
    THEN {[f \in platforms \cup {"garbled"} |->
              IF f = "garbled" THEN Unparseable ELSE NotConfigured]}
    ELSE {}

SearchWorlds(apis) ==
    {[Amazon |-> a, Walmart |-> m, eBay |-> e, Various |-> NotConfigured, garbled |-> g] :
        a \in SearchAnswers(apis, "Amazon"),
        m \in SearchAnswers(apis, "Walmart"),
        e \in SearchAnswers(apis, "eBay"),
        g \in Garblings(apis)}
    \cup NothingParses(apis, {"Amazon", "Walmart", "eBay", "Various"})

SearchOptions == {<<>>} \cup {[max_results |-> k] : k \in 0..MaxK}

\* options of a search that carry a price_range (min_price, max_price) with
\* min_price <= max_price and leave max_results to the settings: a range
\* that holds every mock price, one between the first two mock prices, one
\* between the fourth and the fifth
RangedOptions ==
    {[price_range |-> r] : r \in {<<0, 100000>>, <<2500, 2600>>, <<5000, 5100>>}}

\* What OpenAI can answer for a platform in find_best_deal: items with a
\* price or none
DealPool(platform) ==
    CASE platform = "Amazon" ->
            {[name |-> Tv, price |-> 1000, platform |-> platform, relevance |-> 9],
             [name |-> Tv, platform |-> platform, relevance |-> 9]}
      [] platform = "Walmart" ->
            {[name |-> Tv, price |-> 3000, platform |-> platform, relevance |-> 9],
             [name |-> Tv, price |-> 1000, platform |-> platform, relevance |-> 9]}
      [] platform = "eBay" ->
            {[name |-> Tv, price |-> 3000, platform |-> platform, relevance |-> 9]}
      [] platform = "Target" ->
            {[name |-> Tv, price |-> 500, platform |-> platform, relevance |-> 9]}
      [] OTHER ->
            {[name |-> Tv, platform |-> platform, relevance |-> 9]}

DealAnswers(apis, platform) ==
    IF "openai" \in apis /\ platform \in Range(AvailablePlatforms(apis))
    THEN Answers(DealPool(platform), MaxDealLen)
    ELSE {NotConfigured}

DealWorlds(apis) ==
    {[Amazon |-> a, Walmart |-> m, eBay |-> e, Target |-> t, BestBuy |-> b, garbled |-> g] :
        a \in DealAnswers(apis, "Amazon"),
        m \in DealAnswers(apis, "Walmart"),
        e \in DealAnswers(apis, "eBay"),
        t \in DealAnswers(apis, "Target"),
        b \in DealAnswers(apis, "BestBuy"),
        g \in Garblings(apis)}
    \cup NothingParses(apis, Range(Platforms))

DealOptions == {<<>>} \cup {[max_results_per_platform |-> k] : k \in 0..MaxK}

\* the query / product name of the requests
Query == tv

\* product ids: "7", and "x:tv"
ProductIds == {<<55>>, <<120, 58, 116, 118>>}

\* What OpenAI can answer for the platform find_similar_products is asked about
SimilarPlatforms == {"Amazon", "Etsy"}

SimilarWorlds(apis, platform) ==
    {[f \in {platform, "garbled"} |-> IF f = "garbled" THEN g ELSE a] :
        a \in (IF "openai" \in apis THEN Answers(SearchPool(platform), MaxDealLen)
               ELSE {NotConfigured}),
        g \in Garblings(apis)}
    \cup NothingParses(apis, {platform})

\* the clock readings of track_price, in tenths of a second
Clocks == {[time |-> 15, now |-> 15], [time |-> 19, now |-> 21]}

TrackOptions == {<<>>, [target_price |-> 1500]}

\* random.uniform(80, 120), in tenths of a cent
NewPrices == {80000, 101234, 120000}

\* One day's random draws: 1 + uniform(-0.2, 0.2) in hundredths, and
\* whether the item is in stock
Draws ==
    {[factor |-> 80, in_stock |-> TRUE],
     [factor |-> 120, in_stock |-> TRUE],
     [factor |-> 100, in_stock |-> FALSE]}

\* the day of the request: 1 March 2024, 2 January 2025
Todays == {[year |-> 2024, month |-> 3, day |-> 1], [year |-> 2025, month |-> 1, day |-> 2]}

HistoryOptions == {<<>>} \cup {[days |-> d] : d \in 0..MaxDays}

\* every sequence of draws for a short history, the same draw every day for
\* a longer one
HistoryWorlds(days) ==
    {[today |-> t, draws |-> ds] :
        t \in Todays,
        ds \in (IF days <= MaxDays
                THEN {s \in SeqsUpTo(Draws, days) : Len(s) = days}
                ELSE {[n \in 1..days |-> d] : d \in Draws})}

\* ------------------------------------------------------------- the agent
\* ProductDetectionAgent.__init__ with the api_keys of one of these
\* configurations
Configs ==
    {{},
     {"google_cloud_vision"},
     {"google_cloud_vision", "openai"},
     {"amazon_product_api", "walmart_api", "ebay_api"},
     {"walmart_api", "shopify_api", "target_api"},
     {"openai", "amazon_product_api", "walmart_api"},
     {"openai", "ebay_api", "etsy_api"}}

\* the client libraries the installation can import: both, or not OpenAI's
Installations == {{"google.cloud.vision", "openai"}, {"google.cloud.vision"}}

\* _init_api_clients: a vision or OpenAI key counts when its client
\* initialises, a shopping key of the names checked counts as it is, any
\* other key is ignored
ShoppingKeys == {"amazon_product_api", "walmart_api", "ebay_api", "shopify_api", "etsy_api"}

init_api_clients(keys, importable) ==
    {a \in keys :
        \/ a = "google_cloud_vision" /\ "google.cloud.vision" \in importable
        \/ a = "openai" /\ "openai" \in importable
        \/ a \in ShoppingKeys}

\* self.settings after the setdefault calls of __init__ on an empty config
ConstructedSettings ==
    [confidence_threshold |-> DEFAULT_CONFIDENCE_THRESHOLD,
     max_results |-> DEFAULT_MAX_RESULTS,
     timeout |-> DEFAULT_TIMEOUT]

Idle == [op |-> "none"]
NoWorld == [none |-> TRUE]
NoResult == [status |-> "none"]

Init ==
    /\ settings = ConstructedSettings
    /\ api_keys \in Configs
    /\ \E importable \in Installations :
          available_apis = init_api_clients(api_keys, importable)
    /\ pc = "idle"
    /\ call = Idle
    /\ world = NoWorld
    /\ merged = <<>>
    /\ errors = {}
    /\ asked = <<>>
    /\ result = NoResult
    /\ requests = <<>>
    /\ uploads = <<>>

\* A call ends: its outcome goes to the caller.  No method assigns to
\* self.settings, self.api_keys or self.available_apis.
FinishCallKeepingOptions(c, w, r) ==
    /\ pc' = "done"
    /\ call' = c
    /\ world' = w
    /\ merged' = r.merged
    /\ errors' = r.errors
    /\ asked' = r.asked
    /\ result' = [status |-> r.status, value |-> r.value]
    /\ settings' = [settings EXCEPT !.max_results = OptGet(c.options, "max_results", @)]
    /\ UNCHANGED <<api_keys, available_apis, requests, uploads>>

FinishCall(c, w, r) ==
    /\ pc' = "done"
    /\ call' = c
    /\ world' = w
    /\ merged' = r.merged
    /\ errors' = r.errors
    /\ asked' = r.asked
    /\ result' = [status |-> r.status, value |-> r.value]
    /\ UNCHANGED <<settings, api_keys, available_apis, requests, uploads>>

Finish(op, options, w, r) == FinishCall([op |-> op, options |-> options], w, r)

DetectProducts ==
    /\ pc = "idle"
    /\ \E options \in DetectOptions, w \in DetectWorlds(available_apis) :
          Finish("detect_products", options, w,
                 detect_products(settings, available_apis, w, options))

\* The answer to the fallback completion is fixed only when search_products
\* makes that call
SearchProducts ==
    /\ pc = "idle"
    /\ \E options \in SearchOptions \cup RangedOptions, w0 \in SearchWorlds(available_apis) :
          LET max_results == OptGet(options, "max_results", settings.max_results)
              price_range == OptGet(options, "price_range", NoRange)
              pre == SearchPlatforms(available_apis, w0, Query, price_range, max_results)
          IN \E v \in (IF FallbackConsulted(available_apis, pre.list)
                          /\ w0.garbled # Unparseable
                       THEN Answers(SearchPool("Various"), MaxLen)
                       ELSE {NotConfigured}) :
                LET w == [w0 EXCEPT !.Various = v]
                IN Finish("search_products", options, w,
                          search_products(settings, available_apis, w, Query, options))

FindBestDeal ==
    /\ pc = "idle"
    /\ \E options \in DealOptions, w \in DealWorlds(available_apis) :
          Finish("find_best_deal", options, w,
                 find_best_deal(available_apis, w, Query, options))

FindSimilarProducts ==
    /\ pc = "idle"
    /\ \E product_id \in ProductIds, platform \in SimilarPlatforms, options \in SearchOptions :
          \E w \in SimilarWorlds(available_apis, platform) :
             FinishCall([op |-> "find_similar_products", options |-> options,
                         product_id |-> product_id, platform |-> platform], w,
                        find_similar_products(settings, available_apis, w, product_id,
                                              platform, options))

TrackPrice ==
    /\ pc = "idle"
    /\ \E product_id \in ProductIds, options \in TrackOptions, clock \in Clocks :
          FinishCall([op |-> "track_price", options |-> options,
                      product_id |-> product_id, platform |-> "Amazon"],
                     [clock |-> clock],
                     track_price(product_id, "Amazon", options, clock))

GetPriceHistory ==
    /\ pc = "idle"
    /\ \E product_id \in ProductIds, options \in HistoryOptions :
          \E w \in HistoryWorlds(OptGet(options, "days", 30)) :
             FinishCall([op |-> "get_price_history", options |-> options,
                         product_id |-> product_id, platform |-> "Amazon"], w,
                        get_price_history(product_id, "Amazon", options, w))

GetBuyingOptions ==
    /\ pc = "idle"
    /\ \E new_price \in NewPrices :
          FinishCall([op |-> "get_buying_options", options |-> <<>>,
                      product_name |-> Query],
                     [new_price |-> new_price],
                     get_buying_options(Query, <<>>, new_price))

\* The response is handed to the caller; nothing of the request is retained
Return ==
    /\ pc = "done"
    /\ pc' = "idle"
    /\ call' = Idle
    /\ world' = NoWorld
    /\ merged' = <<>>
    /\ errors' = {}
    /\ asked' = <<>>
    /\ result' = NoResult
    /\ UNCHANGED <<settings, api_keys, available_apis, requests, uploads>>

Next ==
    \/ DetectProducts
    \/ SearchProducts
    \/ FindBestDeal
    \/ FindSimilarProducts
    \/ TrackPrice
    \/ GetPriceHistory
    \/ GetBuyingOptions
    \/ Return

Spec == Init /\ [][Next]_vars

\* ============================================================= API server
\* api_server.py: one Flask process serves every route with the one agent
\* built at import; app.run handles each request on a thread of its own, so
\* the steps of two requests interleave.  A request is what the handler
\* reads of it: request.files, request.form, request.args and the body
\* get_json() parses.  A handler that touches nothing shared is one step; the
\* upload branch of /detect is one step per access to the upload folder.
\* Two clients each send one request.
Clients == {1, 2}

\* ---- request.get_json
\* A body by its kind: "absent" (no body of a JSON content type),
\* "malformed" (a JSON content type and a body that is not JSON), "null",
\* "number" (the body 5), or an object
Json(kind) == [kind |-> kind]
JsonObject(fields) == [kind |-> "object", value |-> fields]

\* get_json(silent): a body that is not JSON raises BadRequest unless silent;
\* without a JSON content type the call returns None or, in later Flask
\* releases, raises unless silent
GetJson(json, silent) ==
    LET none == [raised |-> FALSE, data |-> Json("null")]
        raises == [raised |-> TRUE, data |-> Json("null")]
    IN CASE json.kind = "absent" -> IF silent THEN {none} ELSE {none, raises}
         [] json.kind = "malformed" -> IF silent THEN {none} ELSE {raises}
         [] OTHER -> {[raised |-> FALSE, data |-> json]}

\* not data
Falsy(data) ==
    \/ data.kind = "null"
    \/ data.kind = "object" /\ DOMAIN data.value = {}

\* not request.args.get(key): the key is absent or its value is ""
Missing(args, key) ==
    key \notin DOMAIN args \/ args[key] = (IF key = "platform" THEN "" ELSE <<>>)

\* int(request.args.get(key, default)) for a value of digits or of letters
IntArg(args, key, default) ==
    IF key \notin DOMAIN args THEN [raised |-> FALSE, value |-> default]
    ELSE IF IsDigits(args[key]) THEN [raised |-> FALSE, value |-> DigitsValue(args[key])]
    ELSE [raised |-> TRUE, value |-> 0]

\* ---- responses
\* return jsonify({"error": ...}), 400, before the agent is called
BadRequest(message) ==
    [status |-> 400, body |-> [error |-> message], invoked |-> FALSE]

\* except Exception as e: return jsonify({"error": str(e)}), 500
ServerError(invoked) ==
    [status |-> 500, body |-> [error |-> "exception"], invoked |-> invoked]

\* return jsonify(body)
Ok(body) == [status |-> 200, body |-> body, invoked |-> TRUE]

\* the agent's result in the response, or its exception in the except clause
Answered(r, body) == IF r.status = "raised" THEN ServerError(TRUE) ELSE Ok(body)

\* ---- werkzeug.utils.secure_filename on an ASCII name
\* "_".join(s.split())
RECURSIVE JoinWords(_)
JoinWords(s) ==
    IF s = <<>> THEN <<>>
    ELSE IF Head(s) = 32 THEN JoinWords(Tail(s))
    ELSE IF Tail(s) # <<>> /\ Head(Tail(s)) = 32
         THEN LET more == JoinWords(Tail(s))
              IN IF more = <<>> THEN <<Head(s)>> ELSE <<Head(s), 95>> \o more
    ELSE <<Head(s)>> \o JoinWords(Tail(s))

\* .strip("._")
RECURSIVE Strip(_)
Strip(s) ==
    IF s # <<>> /\ Head(s) \in {46, 95} THEN Strip(Tail(s))
    ELSE IF s # <<>> /\ s[Len(s)] \in {46, 95} THEN Strip(SubSeq(s, 1, Len(s) - 1))
    ELSE s

\* "/" becomes a space, the words are joined by "_", the characters outside
\* [A-Za-z0-9_.-] are dropped, leading and trailing "." and "_" are stripped
secure_filename(filename) ==
    LET spaced == [i \in 1..Len(filename) |-> IF filename[i] = 47 THEN 32 ELSE filename[i]]
        Safe(c) == IsAlpha(c) \/ IsDigit(c) \/ c \in {95, 46, 45}
    IN Strip(SelectSeq(JoinWords(spaced), Safe))

\* ---- the requests
Request(route, method, files, form, args, json) ==
    [route |-> route, method |-> method, files |-> files, form |-> form,
     args |-> args, json |-> json]

\* The image a client sends is its own, and is what a file holds once the
\* client's upload is saved; a path that holds no file holds NoFile
NoFile == 0

\* What the vision adapter answers for the content it reads: on no file it
\* raises, client 1's image shows a shoe, client 2's a bag
WorldOf(content) ==
    [google |-> IF content = NoFile THEN Raises
                ELSE IF content = 1 THEN Returns(<<Product(Shoe, 9, "object")>>)
                ELSE Returns(<<Product(Bag, 9, "brand")>>),
     openai |-> NotConfigured]

\* no completion is requested by an agent without OpenAI
NoCompletions == [garbled |-> 0]

IsUpload(req) == "image" \in DOMAIN req.files /\ req.files.image # <<>>

\* The requests of client c.  File names of an upload: "", "a", "../a", "b"
\* and ".."; an upload "a" can carry the form fields max_results "2" or
\* confidence_threshold "0.5"; the GET requests carry no min_price and
\* max_price.
Requests(c) ==
    {Request("/detect", "POST", [image |-> f], <<>>, <<>>, Json("absent")) :
        f \in {<<>>, <<97>>, <<46, 46, 47, 97>>, <<98>>, <<46, 46>>}}
    \cup {Request("/detect", "POST", [image |-> <<97>>], o, <<>>, Json("absent")) :
             o \in {[max_results |-> <<50>>], [confidence_threshold |-> <<48, 46, 53>>]}}
    \cup {Request("/detect", "POST", <<>>, [image_base64 |-> c], <<>>, Json("absent"))}
    \cup {Request("/detect", "POST", <<>>, <<>>, <<>>, j) :
             j \in {Json("absent"), Json("malformed"), Json("number"), JsonObject(<<>>),
                    JsonObject([image_base64 |-> c]),
                    JsonObject([image_base64 |-> c, options |-> [max_results |-> 0]])}}
    \cup {Request("/search", "GET", <<>>, <<>>, a, Json("absent")) :
             a \in {<<>>, [query |-> <<>>], [query |-> tv],
                    [query |-> tv, max_results |-> <<50>>],
                    [query |-> tv, max_results |-> <<120>>]}}
    \cup {Request("/search", "POST", <<>>, <<>>, <<>>, j) :
             j \in {Json("absent"), Json("malformed"), Json("number"), JsonObject(<<>>),
                    JsonObject([options |-> [max_results |-> 1]]),
                    JsonObject([query |-> tv]),
                    JsonObject([query |-> tv, options |-> [max_results |-> 1]])}}
    \cup {Request("/track", "POST", <<>>, <<>>, <<>>, j) :
             j \in {Json("absent"), Json("malformed"), Json("number"), JsonObject(<<>>),
                    JsonObject([product_id |-> <<55>>]),
                    JsonObject([platform |-> "Amazon"]),
                    JsonObject([product_id |-> <<55>>, platform |-> "Amazon"]),
                    JsonObject([product_id |-> <<55>>, platform |-> "Amazon",
                                options |-> [target_price |-> 1500]])}}
    \cup {Request("/history", "GET", <<>>, <<>>, a, Json("absent")) :
             a \in {<<>>, [product_id |-> <<55>>], [platform |-> "Amazon"],
                    [product_id |-> <<55>>, platform |-> ""],
                    [product_id |-> <<55>>, platform |-> "Amazon"],
                    [product_id |-> <<55>>, platform |-> "Amazon", days |-> <<48>>],
                    [product_id |-> <<55>>, platform |-> "Amazon", days |-> <<50>>],
                    [product_id |-> <<55>>, platform |-> "Amazon", days |-> <<120>>]}}
    \cup {Request("/similar", "GET", <<>>, <<>>, a, Json("absent")) :
             a \in {<<>>, [product_id |-> <<55>>], [platform |-> "Amazon"],
                    [product_id |-> <<55>>, platform |-> "Amazon"],
                    [product_id |-> <<55>>, platform |-> "Amazon", max_results |-> <<50>>],
                    [product_id |-> <<55>>, platform |-> "Amazon", max_results |-> <<120>>]}}
    \cup {Request("/best-deal", "GET", <<>>, <<>>, a, Json("absent")) :
             a \in {<<>>, [product_name |-> <<>>], [product_name |-> tv],
                    [product_name |-> tv, max_results_per_platform |-> <<49>>],
                    [product_name |-> tv, max_results_per_platform |-> <<120>>]}}
    \cup {Request("/buying-options", "GET", <<>>, <<>>, a, Json("absent")) :
             a \in {<<>>, [product_name |-> <<>>], [product_name |-> tv]}}

\* the files the upload folder can hold
StoredNames ==
    {secure_filename(r.files.image) : r \in {q \in Requests(1) : IsUpload(q)}} \ {<<>>}

\* ---- the handlers
\* agent.detect_products(image, request.form.to_dict()): every value of the
\* form is a str.  A str max_results is the slice bound of
\* sorted(...)[:max_results] (and, with OpenAI, the operand of
\* len(detected_products) < max_results), a str confidence_threshold is
\* compared with the confidence of each detected product: both raise
\* TypeError outside every try block of detect_products.  No other field of
\* the form is read.
DetectWithForm(stg, apis, w, form) ==
    LET r == detect_products(stg, apis, w,
                             [k \in DOMAIN form \ {"max_results", "confidence_threshold"} |->
                                 form[k]])
        TypeError == [r EXCEPT !.status = "raised", !.value = <<>>]
    IN IF "max_results" \in DOMAIN form THEN TypeError
       ELSE IF "confidence_threshold" \in DOMAIN form /\ r.merged # <<>> THEN TypeError
       ELSE r

\* detect_products (route /detect) outside the upload branch: a file part
\* without a name, a form field image_base64, a JSON body, or nothing.
\* `got` is what get_json(silent=True) gives.
DetectDirect(stg, apis, req, got) ==
    IF "image" \in DOMAIN req.files THEN BadRequest("No file selected")
    ELSE IF "image_base64" \in DOMAIN req.form
         THEN LET r == DetectWithForm(stg, apis, WorldOf(req.form.image_base64), req.form)
              IN Answered(r, [products |-> r.value])
    ELSE IF Falsy(got.data) THEN BadRequest("No image provided")
    ELSE IF got.data.kind # "object" THEN ServerError(FALSE)
    ELSE IF "image_base64" \notin DOMAIN got.data.value THEN BadRequest("No image provided")
    ELSE LET r == detect_products(stg, apis, WorldOf(got.data.value.image_base64),
                                  OptGet(got.data.value, "options", <<>>))
         IN Answered(r, [products |-> r.value])

\* search_products (route /search): `got` is what get_json() gives a POST
SearchRoute(stg, apis, req, got) ==
    IF req.method = "GET"
    THEN IF Missing(req.args, "query") THEN BadRequest("No query provided")
         ELSE LET n == IntArg(req.args, "max_results", stg.max_results)
              IN IF n.raised THEN ServerError(FALSE)
                 ELSE LET r == search_products(stg, apis, NoCompletions, req.args.query,
                                               [max_results |-> n.value])
                      IN Answered(r, [results |-> r.value])
    ELSE IF got.raised THEN ServerError(FALSE)
    ELSE IF Falsy(got.data) THEN BadRequest("No query provided")
    ELSE IF got.data.kind # "object" THEN ServerError(FALSE)
    ELSE IF "query" \notin DOMAIN got.data.value THEN BadRequest("No query provided")
    ELSE LET r == search_products(stg, apis, NoCompletions, got.data.value.query,
                                  OptGet(got.data.value, "options", <<>>))
         IN Answered(r, [results |-> r.value])

\* track_price (route /track)
TrackPost(got, clock) ==
    IF got.raised THEN ServerError(FALSE)
    ELSE IF Falsy(got.data) THEN BadRequest("Product ID and platform are required")
    ELSE IF got.data.kind # "object" THEN ServerError(FALSE)
    ELSE IF {"product_id", "platform"} \ DOMAIN got.data.value # {}
         THEN BadRequest("Product ID and platform are required")
    ELSE LET r == track_price(got.data.value.product_id, got.data.value.platform,
                              OptGet(got.data.value, "options", <<>>), clock)
         IN Answered(r, r.value)

\* get_price_history (route /history)
HistoryGet(args, w) ==
    IF Missing(args, "product_id") \/ Missing(args, "platform")
    THEN BadRequest("Product ID and platform are required")
    ELSE LET n == IntArg(args, "days", 30)
         IN IF n.raised THEN ServerError(FALSE)
            ELSE LET r == get_price_history(args.product_id, args.platform,
                                            [days |-> n.value], w)
                 IN Answered(r, r.value)

\* find_similar_products (route /similar)
SimilarGet(stg, apis, args) ==
    IF Missing(args, "product_id") \/ Missing(args, "platform")
    THEN BadRequest("Product ID and platform are required")
    ELSE LET n == IntArg(args, "max_results", stg.max_results)
         IN IF n.raised THEN ServerError(FALSE)
            ELSE LET r == find_similar_products(stg, apis, NoCompletions, args.product_id,
                                                args.platform, [max_results |-> n.value])
                 IN Answered(r, [similar_products |-> r.value])

\* find_best_deal (route /best-deal)
BestDealGet(apis, args) ==
    IF Missing(args, "product_name") THEN BadRequest("Product name is required")
    ELSE LET n == IntArg(args, "max_results_per_platform", 3)
         IN IF n.raised THEN ServerError(FALSE)
            ELSE LET r == find_best_deal(apis, NoCompletions, args.product_name,
                                         [max_results_per_platform |-> n.value])
                 IN Answered(r, r.value)

\* get_buying_options (route /buying-options)
BuyingOptionsGet(args, new_price) ==
    IF Missing(args, "product_name") THEN BadRequest("Product name is required")
    ELSE LET r == get_buying_options(args.product_name, <<>>, new_price)
         IN Answered(r, r.value)

\* ---- the server
\* the keys of the agent the server builds: no OpenAI key
ServerConfigs ==
    {{"google_cloud_vision"},
     {"google_cloud_vision", "walmart_api", "ebay_api"}}

ServerInit ==
    /\ settings = ConstructedSettings
    /\ api_keys \in ServerConfigs
    /\ available_apis = init_api_clients(api_keys, {"google.cloud.vision", "openai"})
    /\ pc = "idle"
    /\ call = Idle
    /\ world = NoWorld
    /\ merged = <<>>
    /\ errors = {}
    /\ asked = <<>>
    /\ result = NoResult
    /\ requests = [c \in Clients |-> [pc |-> "idle"]]
    /\ uploads = [n \in StoredNames |-> NoFile]

\* the handler returns its response
Respond(c, req, response) ==
    requests' = [requests EXCEPT ![c] = [pc |-> "done", req |-> req, response |-> response]]

\* the upload branch moves on
Step(c, to, fields) ==
    requests' = [requests EXCEPT ![c] =
                    [f \in DOMAIN @ \cup DOMAIN fields \cup {"pc"} |->
                        IF f = "pc" THEN to
                        ELSE IF f \in DOMAIN fields THEN fields[f]
                        ELSE @[f]]]

ServeDetect(c) ==
    /\ requests[c].pc = "idle"
    /\ \E req \in Requests(c) :
          /\ req.route = "/detect" /\ ~IsUpload(req)
          /\ \E got \in GetJson(req.json, TRUE) :
                Respond(c, req, DetectDirect(settings, available_apis, req, got))
    /\ UNCHANGED <<agent, uploads>>

\* filename = secure_filename(file.filename); file.save(filepath): a name
\* that sanitizes to "" makes filepath the upload folder, which cannot be
\* opened for writing
DetectSave(c) ==
    /\ requests[c].pc = "idle"
    /\ \E req \in Requests(c) :
          /\ req.route = "/detect" /\ IsUpload(req)
          /\ LET filename == secure_filename(req.files.image)
             IN IF filename = <<>>
                THEN Respond(c, req, ServerError(FALSE)) /\ UNCHANGED uploads
                ELSE /\ uploads' = [uploads EXCEPT ![filename] = c]
                     /\ requests' = [requests EXCEPT ![c] =
                                        [pc |-> "saved", req |-> req, filepath |-> filename]]
    /\ UNCHANGED agent

\* products = agent.detect_products(filepath, options): the adapter reads
\* what the path holds now
DetectRun(c) ==
    /\ requests[c].pc = "saved"
    /\ LET content == uploads[requests[c].filepath]
           r == DetectWithForm(settings, available_apis, WorldOf(content),
                               requests[c].req.form)
       IN IF r.status = "raised"
          THEN Step(c, "done", [seen |-> content, response |-> ServerError(TRUE)])
          ELSE Step(c, "detected", [seen |-> content, products |-> r.value])
    /\ UNCHANGED <<agent, uploads>>

\* if os.path.exists(filepath):
DetectExists(c) ==
    /\ requests[c].pc = "detected"
    /\ Step(c, "checked", [exists |-> uploads[requests[c].filepath] # NoFile])
    /\ UNCHANGED <<agent, uploads>>

\* os.remove(filepath), which raises when the file is gone by now
DetectRemove(c) ==
    /\ requests[c].pc = "checked"
    /\ requests[c].exists
    /\ IF uploads[requests[c].filepath] = NoFile
       THEN Respond(c, requests[c].req, ServerError(TRUE)) /\ UNCHANGED uploads
       ELSE /\ uploads' = [uploads EXCEPT ![requests[c].filepath] = NoFile]
            /\ Step(c, "cleaned", <<>>)
    /\ UNCHANGED agent

\* return jsonify({"products": products})
DetectRespond(c) ==
    /\ \/ requests[c].pc = "cleaned"
       \/ requests[c].pc = "checked" /\ ~requests[c].exists
    /\ requests' = [requests EXCEPT ![c] =
                       [pc |-> "done", req |-> requests[c].req, seen |-> requests[c].seen,
                        response |-> Ok([products |-> requests[c].products])]]
    /\ UNCHANGED <<agent, uploads>>

ServeSearch(c) ==
    /\ requests[c].pc = "idle"
    /\ \E req \in Requests(c) :
          /\ req.route = "/search"
          /\ \E got \in GetJson(req.json, req.method = "GET") :
                Respond(c, req, SearchRoute(settings, available_apis, req, got))
    /\ UNCHANGED <<agent, uploads>>

ServeTrack(c) ==
    /\ requests[c].pc = "idle"
    /\ \E req \in Requests(c), clock \in Clocks :
          /\ req.route = "/track"
          /\ \E got \in GetJson(req.json, FALSE) :
                Respond(c, req, TrackPost(got, clock))
    /\ UNCHANGED <<agent, uploads>>

ServeHistory(c) ==
    /\ requests[c].pc = "idle"
    /\ \E req \in Requests(c) :
          /\ req.route = "/history"
          /\ LET n == IntArg(req.args, "days", 30)
             IN \E w \in HistoryWorlds(IF n.raised THEN 0 ELSE n.value) :
                   Respond(c, req, HistoryGet(req.args, w))
    /\ UNCHANGED <<agent, uploads>>

ServeSimilar(c) ==
    /\ requests[c].pc = "idle"
    /\ \E req \in Requests(c) :
          /\ req.route = "/similar"
          /\ Respond(c, req, SimilarGet(settings, available_apis, req.args))
    /\ UNCHANGED <<agent, uploads>>

ServeBestDeal(c) ==
    /\ requests[c].pc = "idle"
    /\ \E req \in Requests(c) :
          /\ req.route = "/best-deal"
          /\ Respond(c, req, BestDealGet(available_apis, req.args))
    /\ UNCHANGED <<agent, uploads>>

ServeBuyingOptions(c) ==
    /\ requests[c].pc = "idle"
    /\ \E req \in Requests(c), new_price \in NewPrices :
          /\ req.route = "/buying-options"
          /\ Respond(c, req, BuyingOptionsGet(req.args, new_price))
    /\ UNCHANGED <<agent, uploads>>

ServerNext ==
    \E c \in Clients :
        \/ ServeDetect(c)
        \/ DetectSave(c)
        \/ DetectRun(c)
        \/ DetectExists(c)
        \/ DetectRemove(c)
        \/ DetectRespond(c)
        \/ ServeSearch(c)
        \/ ServeTrack(c)
        \/ ServeHistory(c)
        \/ ServeSimilar(c)
        \/ ServeBestDeal(c)
        \/ ServeBuyingOptions(c)

ServerSpec == ServerInit /\ [][ServerNext]_vars

\* A thread that serves a request runs its handler to the end: app.run
\* gives every request a thread, and no step of a handler waits for another
\* request.
FairServerSpec == ServerSpec /\ WF_vars(ServerNext)

\* ============================================================ properties
\* What the formulas below read of a finished call
Done(op) == pc = "done" /\ call.op = op
Returned == pc = "done" /\ result.status = "returned"
Out == result.value
MaxResultsOf == OptGet(call.options, "max_results", settings.max_results)
PriceRangeOf == OptGet(call.options, "price_range", NoRange)
ThresholdOf == OptGet(call.options, "confidence_threshold", settings.confidence_threshold)
Merging == pc = "done" /\ call.op \in {"detect_products", "search_products"}

\* the score field of the call, a candidate lacking it counting as 0
ScoreField == IF call.op = "detect_products" THEN "confidence" ELSE "relevance"
Score(c) == IF ScoreField \in DOMAIN c THEN c[ScoreField] ELSE 0
NegativeOrAbsent(c) == ScoreField \notin DOMAIN c \/ c[ScoreField] < 0

WasAsked(source) == source \in Range(asked)

\* the adapters of the call, the source each invokes and what it answered
Adapters ==
    IF call.op = "detect_products"
    THEN {[adapter |-> "google_cloud_vision", source |-> "google_cloud_vision",
           answer |-> world.google],
          [adapter |-> "openai", source |-> "openai", answer |-> world.openai]}
    ELSE {[adapter |-> "amazon_product_api", source |-> "Amazon", answer |-> world.Amazon],
          [adapter |-> "walmart_api", source |-> "Walmart", answer |-> world.Walmart],
          [adapter |-> "ebay_api", source |-> "eBay", answer |-> world.eBay],
          [adapter |-> "openai", source |-> "Various", answer |-> world.Various]}

\* an adapter that was invoked and raised, in its call or while its answer
\* was merged
Failed(a) == WasAsked(a.source) /\ (a.answer.raised \/ a.adapter \in errors)

\* the candidates of an adapter that was invoked and did not fail
Contributed(a) ==
    IF WasAsked(a.source) /\ ~Failed(a) THEN a.answer.items ELSE <<>>

FromAdapter(c, a) ==
    IF call.op = "detect_products"
    THEN (c.type = "product") <=> (a.adapter = "openai")
    ELSE c.platform = a.source

RECURSIVE IsSubseq(_, _)
IsSubseq(a, b) ==
    IF a = <<>> THEN TRUE
    ELSE IF b = <<>> THEN FALSE
    ELSE IF Head(a) = Head(b) THEN IsSubseq(Tail(a), Tail(b))
    ELSE IsSubseq(a, Tail(b))

IsPrefix(a, b) == Len(a) <= Len(b) /\ SubSeq(b, 1, Len(a)) = a

\* ------------------------------------------------------------------- C1
SameName(a, b) == b.name # None /\ Lower(a.name) = Lower(b.name)
NamedLike(a) == {i \in DOMAIN Out : Lower(Out[i].name) = Lower(a.name)}
BothAnswered ==
    /\ Done("detect_products")
    /\ WasAsked("google_cloud_vision") /\ ~world.google.raised
    /\ WasAsked("openai") /\ ~world.openai.raised

OnceInGoogle(a) ==
    Cardinality({j \in DOMAIN world.google.items :
                    Lower(world.google.items[j].name) = Lower(a.name)}) = 1

C2_NonIncreasing ==
    (Merging /\ Returned) =>
        \A i \in 1..(Len(Out) - 1) : Score(Out[i]) >= Score(Out[i + 1])

\* a search result without relevance sits between a positive and a negative one
C2_Witness ==
    /\ Done("search_products") /\ Returned
    /\ \E i \in 2..(Len(Out) - 1) :
          /\ "relevance" \notin DOMAIN Out[i]
          /\ Score(Out[i - 1]) > 0
          /\ Score(Out[i + 1]) < 0

\* ------------------------------------------------------------------- C3
\* a candidate dropped as a duplicate of an earlier one (detect_products)
DroppedAsDuplicate(a, j) ==
    /\ call.op = "detect_products"
    /\ a.adapter = "openai"
    /\ \/ \E g \in Range(Contributed(CHOOSE x \in Adapters : x.adapter = "google_cloud_vision")) :
             SameName(g, a.answer.items[j])
       \/ \E h \in 1..(j - 1) : SameName(a.answer.items[h], a.answer.items[j])

\* a candidate cut by max_results: the list is full of candidates scoring
\* at least as high
CutByMaxResults(c) ==
    /\ Len(Out) = MaxResultsOf
    /\ \A i \in DOMAIN Out : Score(Out[i]) >= Score(c)

BelowThreshold(c) == call.op = "detect_products" /\ Score(c) < ThresholdOf

\* C3 as claimed: if an adapter raises, the call returns normally and every
\* candidate the other adapters returned is in the result, subject only to
\* dedup, sort and truncation.
C3_OthersStillMerged ==
    (Merging /\ \E a \in Adapters : Failed(a)) =>
        /\ result.status = "returned"
        /\ \A a \in Adapters : \A j \in DOMAIN Contributed(a) :
              \/ Contributed(a)[j] \in Range(Out)
              \/ DroppedAsDuplicate(a, j)
              \/ CutByMaxResults(Contributed(a)[j])

\* C3 as amended: ... subject only to dedup, the confidence threshold of
\* detect_products, sort and truncation.
C3_OthersMergedAboveThreshold ==
    (Merging /\ \E a \in Adapters : Failed(a)) =>
        /\ result.status = "returned"
        /\ \A a \in Adapters : \A j \in DOMAIN Contributed(a) :
              \/ Contributed(a)[j] \in Range(Out)
              \/ DroppedAsDuplicate(a, j)
              \/ BelowThreshold(Contributed(a)[j])
              \/ CutByMaxResults(Contributed(a)[j])

\* Google Vision raised and both candidates OpenAI returned are in the result
C3_Witness ==
    /\ Done("detect_products") /\ Returned
    /\ errors = {"google_cloud_vision"}
    /\ Len(world.openai.items) = 2
    /\ Len(Out) = 2
    /\ Range(Out) = Range(world.openai.items)

\* ------------------------------------------------------------------- C4
PlatformCandidates == {c \in Range(merged) : c.platform # "Various"}
DistinctNames == {Lower(c.name) : c \in PlatformCandidates}

\* C4 as claimed: search_products returns exactly min(k, d) results, d the
\* number of distinct case-insensitive names among the candidates the
\* configured platform adapters returned (stated for the requests that do
\* not fall back to the platform-less mock results).
C4_MinOfCapAndDistinct ==
    (Done("search_products") /\ Returned /\ ~WasAsked("Various")) =>
        Len(Out) = Min(MaxResultsOf, Cardinality(DistinctNames))

\* ------------------------------------------------------------------- C5
\* C5 as claimed: the returned list of detect_products and of
\* search_products never holds two entries whose names are equal after
\* lowercasing.
C5_NoTwoOfOneName ==
    (Merging /\ Returned) =>
        \A i, j \in DOMAIN Out : i # j => Lower(Out[i].name) # Lower(Out[j].name)

\* ------------------------------------------------------------------- C6
PairwiseDistinctNames(items) ==
    /\ \A i \in DOMAIN items : items[i].name # None
    /\ \A i, j \in DOMAIN items : i # j => Lower(items[i].name) # Lower(items[j].name)

\* C6 as claimed: with both vision adapters configured and returning
\* candidates of pairwise distinct names, the list merged before truncation
\* has len(A) + len(B) entries, however many the first adapter returned
\* (stated for max_results of at least 1).
C6_UnionOfBoth ==
    (/\ Done("detect_products")
     /\ MaxResultsOf >= 1
     /\ {"google_cloud_vision", "openai"} \subseteq available_apis
     /\ ~world.google.raised /\ ~world.openai.raised
     /\ PairwiseDistinctNames(world.google.items \o world.openai.items))
    => Len(merged) = Len(world.google.items) + Len(world.openai.items)

\* ------------------------------------------------------------------- C7
\* C7 as claimed: a merged candidate with a negative or absent score is in
\* the result whenever max_results leaves room for it.
C7_NeverRejectedForScore ==
    (Merging /\ Returned) =>
        \A i \in DOMAIN merged :
            (NegativeOrAbsent(merged[i]) /\ Len(Out) < MaxResultsOf)
                => merged[i] \in Range(Out)

\* C7 as amended: in search_products such a candidate is in the result
\* whenever max_results leaves room for it; in detect_products it is when,
\* besides, its score is at least confidence_threshold.
C7_RejectedOnlyBelowThreshold ==
    (Merging /\ Returned) =>
        \A i \in DOMAIN merged :
            (/\ NegativeOrAbsent(merged[i])
             /\ Len(Out) < MaxResultsOf
             /\ ~BelowThreshold(merged[i]))
                => merged[i] \in Range(Out)

\* detect_products with a negative threshold returns a negative-confidence
\* candidate, after a higher-scoring one
C7_Witness ==
    /\ Done("detect_products") /\ Returned
    /\ Len(Out) >= 2
    /\ Out[Len(Out)].confidence < 0
    /\ Out[1].confidence > 0

\* ------------------------------------------------------------------- C8
Scoring(seq, s) == SelectSeq(seq, LAMBDA c : Score(c) = s)
AboveThreshold(seq) == SelectSeq(seq, LAMBDA c : ~BelowThreshold(c))
From(seq, a) == SelectSeq(seq, LAMBDA c : FromAdapter(c, a))

SourceRank(c) ==
    IF call.op = "detect_products" THEN (IF c.type = "product" THEN 2 ELSE 1)
    ELSE CASE c.platform = "Amazon" -> 1
           [] c.platform = "Walmart" -> 2
           [] c.platform = "eBay" -> 3
           [] OTHER -> 4

\* C8: among candidates of equal score the result keeps concatenation
\* order: those of an earlier source precede those of a later one, and those
\* of one source keep the order the adapter returned them in.
C8_StableOnTies ==
    (Merging /\ Returned) =>
        /\ \A i, j \in DOMAIN Out :
              (i < j /\ Score(Out[i]) = Score(Out[j])) => SourceRank(Out[i]) <= SourceRank(Out[j])
        /\ \A c \in Range(Out) :
              IsPrefix(Scoring(Out, Score(c)), Scoring(AboveThreshold(merged), Score(c)))
        /\ \A i, j \in DOMAIN merged : i < j => SourceRank(merged[i]) <= SourceRank(merged[j])
        /\ \A a \in Adapters :
              WasAsked(a.source) => IsSubseq(From(merged, a), a.answer.items)

\* three candidates of one score: two of Google Vision in the order it gave
\* them, then one of OpenAI
C8_Witness ==
    /\ Done("detect_products") /\ Returned
    /\ Len(Out) = 3
    /\ \A i \in 1..3 : Out[i].confidence = 7
    /\ <<Out[1], Out[2]>> = world.google.items
    /\ Out[1].name # Out[2].name
    /\ Out[3].type = "product"

\* ------------------------------------------------------------------- C9
\* C9 as claimed: an adapter whose contribution fails contributes nothing:
\* none of its candidates is in the returned list.
C9_FailedContributesNothing ==
    (Merging /\ Returned) =>
        \A a \in Adapters :
            a.adapter \in errors => \A i \in DOMAIN Out : ~FromAdapter(Out[i], a)

\* ------------------------------------------------------------------ C10
\* C10 as claimed: in find_best_deal a failure while obtaining one
\* platform's results never aborts the call, and if every platform fails the
\* call returns {"error": "No results found"}.
C10_EveryFetchGuarded ==
    Done("find_best_deal") =>
        /\ result.status = "returned"
        /\ (\A p \in Range(AvailablePlatforms(available_apis)) : world[p].raised)
              => result.value = NoResultsFound

\* ------------------------------------------------------------------ C11
AnyOp == {"detect_products", "search_products", "find_best_deal"}

\* the candidates the source adapters produced for the request: what the
\* external sources invoked answered, or, without OpenAI, the mock list of
\* each platform fetched
FetchedPlatforms ==
    IF call.op = "find_best_deal" THEN Range(AvailablePlatforms(available_apis))
    ELSE {p \in {"Amazon", "Walmart", "eBay"} : SearchApi[p] \in available_apis}

MockLimit ==
    IF call.op = "find_best_deal"
    THEN OptGet(call.options, "max_results_per_platform", 3)
    ELSE MaxResultsOf

Produced ==
    IF call.op = "detect_products"
    THEN Range(world.google.items) \cup Range(world.openai.items)
    ELSE IF "openai" \in available_apis
         THEN UNION {Range(world[p].items) : p \in DOMAIN world \ {"garbled"}}
         ELSE UNION {Range(SimpleMock(Query, PriceRangeOf, MockLimit, p)) : p \in FetchedPlatforms}

\* the candidates a call returned
ReturnedCandidates ==
    IF call.op = "find_best_deal"
    THEN (IF Out = NoResultsFound THEN {} ELSE {Out})
    ELSE Range(Out)

\* C11 as claimed: every candidate returned by detect_products,
\* search_products or find_best_deal is field for field a candidate that a
\* source adapter produced for the request.
C11_FieldForField ==
    (pc = "done" /\ call.op \in AnyOp /\ Returned) => ReturnedCandidates \subseteq Produced

\* c with the field "comparison" set and every other field as it was
ComparisonAdded(c, d) ==
    /\ DOMAIN d = DOMAIN c \cup {"comparison"}
    /\ \A f \in DOMAIN c \ {"comparison"} : d[f] = c[f]

\* C11 as amended: every candidate detect_products or search_products returns
\* is field for field a candidate a source adapter produced for the request;
\* the candidate find_best_deal returns is such a candidate with the field
\* "comparison" set and every other field unchanged.
C11_OnlyComparisonAdded ==
    (pc = "done" /\ call.op \in AnyOp /\ Returned) =>
        IF call.op = "find_best_deal"
        THEN \A d \in ReturnedCandidates : \E c \in Produced : ComparisonAdded(c, d)
        ELSE ReturnedCandidates \subseteq Produced

\* find_best_deal returns a candidate OpenAI produced without a price, with
\* the comparison block added and still without a price
C11_Witness ==
    /\ Done("find_best_deal") /\ Returned
    /\ "openai" \in available_apis
    /\ "comparison" \in DOMAIN Out
    /\ "price" \notin DOMAIN Out

\* ------------------------------------------------------------------ C12
\* what the call of the state returns on an agent just constructed with the
\* same clients
OnFreshAgent ==
    LET r == CASE call.op = "detect_products" ->
                    detect_products(ConstructedSettings, available_apis, world, call.options)
               [] call.op = "search_products" ->
                    search_products(ConstructedSettings, available_apis, world, Query,
                                    call.options)
               [] call.op = "find_best_deal" ->
                    find_best_deal(available_apis, world, Query, call.options)
               [] call.op = "find_similar_products" ->
                    find_similar_products(ConstructedSettings, available_apis, world,
                                          call.product_id, call.platform, call.options)
               [] call.op = "track_price" ->
                    track_price(call.product_id, call.platform, call.options, world.clock)
               [] call.op = "get_price_history" ->
                    get_price_history(call.product_id, call.platform, call.options, world)
               [] call.op = "get_buying_options" ->
                    get_buying_options(call.product_name, call.options, world.new_price)
    IN [status |-> r.status, value |-> r.value]

\* C12: no call of any of the seven operations changes settings, api_keys or
\* available_apis, so they stay as constructed, and every call returns what
\* it returns on a freshly constructed agent, whatever calls preceded it.
C12_NoRetainedState ==
    /\ [][/\ settings' = settings
          /\ api_keys' = api_keys
          /\ available_apis' = available_apis]_vars
    /\ [](settings = ConstructedSettings)
    /\ [](pc = "done" => result = OnFreshAgent)

\* a call that overrides max_results has returned that many results, and
\* the setting is still the constructed one
C12_Witness ==
    /\ Done("find_similar_products") /\ Returned
    /\ "max_results" \in DOMAIN call.options
    /\ call.options.max_results # ConstructedSettings.max_results
    /\ Len(Out) = call.options.max_results
    /\ Len(Out) > 0
    /\ settings = ConstructedSettings

\* ------------------------------------------------------------------ C13
\* how often the call invoked an external source
TimesAsked(source) == Cardinality({i \in DOMAIN asked : asked[i] = source})

\* C13 as claimed: within one detect_products, search_products,
\* find_similar_products or find_best_deal call every external source, the
\* OpenAI completion for a given platform included, is invoked at most once,
\* also when its call fails or its response cannot be parsed.
C13_NothingRetried ==
    (pc = "done" /\ call.op \in AnyOp \cup {"find_similar_products"}) =>
        \A source \in Range(asked) : TimesAsked(source) <= 1

\* ------------------------------------------------------------------ C18
\* C18 as claimed: _generate_mock_results always terminates and, when OpenAI
\* is configured and a response of it cannot be parsed, returns the simple
\* locally generated mock list of exactly max_results entries.  Read on
\* find_similar_products, which returns what _generate_mock_results returns.
C18_FallsBackToSimpleMock ==
    (Done("find_similar_products") /\ "openai" \in available_apis /\ world.garbled > 0) =>
        /\ Returned
        /\ Out = SimpleMock(SimilarName(call.product_id), NoRange, MaxResultsOf,
                            call.platform)
        /\ Len(Out) = MaxResultsOf

\* ------------------------------------------------------------------ C15
\* the adapter is invoked by the call: a vision adapter or the fallback when
\* its source was asked, a platform adapter when its key is configured
Invoked(a) ==
    IF call.op = "search_products" /\ a.source # "Various"
    THEN a.adapter \in available_apis
    ELSE WasAsked(a.source)

\* what the adapter's own call ended in: a platform adapter without OpenAI
\* returns the simple mock list, one none of whose completions parses raises
AdapterAnswer(a) ==
    IF call.op = "detect_products" THEN a.answer
    ELSE IF "openai" \notin available_apis
         THEN Returns(SimpleMock(Query, PriceRangeOf, MaxResultsOf, a.source))
    ELSE IF world.garbled = Unparseable THEN Raises
    ELSE a.answer

FailsOrEmpty(a) == AdapterAnswer(a).raised \/ AdapterAnswer(a).items = <<>>

FoundDeal == Done("find_best_deal") /\ Returned /\ merged # <<>>

\* C17: when find_best_deal finds at least one result, the candidate it
\* returns costs no more than any candidate gathered from the searched
\* platforms, and it has a price whenever one of them has.
C17_BestIsCheapest ==
    FoundDeal =>
        \A c \in Range(merged) :
            HasPrice(c) => HasPrice(Out) /\ Out.price <= c.price

\* a candidate without a price was gathered before dearer and cheaper priced
\* ones, and the cheapest is returned
C17_Witness ==
    /\ FoundDeal
    /\ ~HasPrice(merged[1])
    /\ HasPrice(Out)
    /\ \E i, j \in DOMAIN merged :
          /\ i < j
          /\ HasPrice(merged[i]) /\ merged[i].price > Out.price
          /\ HasPrice(merged[j]) /\ merged[j].price = Out.price

\* ------------------------------------------------------------------ C19
PlatformAdapters == {a \in Adapters : a.source # "Various"}

\* C19: in search_products the platform-less mock results (platform
\* "Various") are requested only if no shopping-platform adapter contributed
\* a result, and the output never holds one of them together with a result
\* of a platform adapter.
C19_VariousOnlyAlone ==
    Done("search_products") =>
        /\ WasAsked("Various") =>
              \A a \in PlatformAdapters : Invoked(a) => FailsOrEmpty(a)
        /\ Returned =>
              \A c, d \in Range(Out) : c.platform = "Various" => d.platform = "Various"

\* a platform adapter was invoked and returned nothing, the fallback was
\* requested and the output is made of its results
C19_Witness ==
    /\ Done("search_products") /\ Returned
    /\ \E a \in PlatformAdapters : Invoked(a) /\ AdapterAnswer(a) = Returns(<<>>)
    /\ WasAsked("Various")
    /\ Out # <<>>
    /\ \A c \in Range(Out) : c.platform = "Various"

\* ------------------------------------------------------------------ C20
PlatformsSearched == Range(Out.comparison.platforms_searched)

\* C20 as claimed: in find_best_deal every platform among Amazon, Walmart and
\* eBay whose API key is configured on the agent is searched and listed in
\* comparison.platforms_searched, and the all-platforms mock fallback is used
\* only when no shopping-platform API is configured.
C20_ConfiguredPlatformsSearched ==
    (FoundDeal /\ "comparison" \in DOMAIN Out) =>
        /\ \A p \in DOMAIN SearchApi :
              SearchApi[p] \in available_apis => p \in PlatformsSearched
        /\ PlatformsSearched = Range(Platforms) => available_apis \cap ShoppingKeys = {}

\* ------------------------------------------------------------------ C14
HasField(json, key) == json.kind = "object" /\ key \in DOMAIN json.value

\* the request lacks a required input of its route
LacksRequired(req) ==
    CASE req.route = "/detect" ->
            /\ ~IsUpload(req)
            /\ "image_base64" \notin DOMAIN req.form
            /\ ~HasField(req.json, "image_base64")
      [] req.route = "/search" ->
            IF req.method = "GET" THEN Missing(req.args, "query")
            ELSE ~HasField(req.json, "query")
      [] req.route = "/track" ->
            ~HasField(req.json, "product_id") \/ ~HasField(req.json, "platform")
      [] req.route \in {"/history", "/similar"} ->
            Missing(req.args, "product_id") \/ Missing(req.args, "platform")
      [] OTHER -> Missing(req.args, "product_name")

Answered400(c) == requests[c].response.status = 400 /\ ~requests[c].response.invoked

\* C14 as claimed: a request that lacks a required input (no image for
\* /detect; no query for /search; no product_id or platform for /track,
\* /history and /similar; no product_name for /best-deal and
\* /buying-options) is answered with status 400 and the agent is not invoked
\* for it.
C14_MissingInputIs400 ==
    \A c \in DOMAIN requests :
        (requests[c].pc = "done" /\ LacksRequired(requests[c].req)) => Answered400(c)

\* ------------------------------------------------------------------ C16
\* the response to client c's upload when no other request is in flight
AloneResponse(c) ==
    LET r == DetectWithForm(settings, available_apis, WorldOf(c), requests[c].req.form)
    IN Answered(r, [products |-> r.value])

UploadDone(c) ==
    /\ requests[c].pc = "done"
    /\ IsUpload(requests[c].req)
    /\ secure_filename(requests[c].req.files.image) # <<>>

\* C16 as claimed: for any interleaving of two /detect file uploads, equal
\* sanitized file names included, each request's detection runs on its own
\* uploaded image and the request returns the response it would return alone.
C16_UploadsIndependent ==
    \A c \in DOMAIN requests :
        UploadDone(c) =>
            /\ requests[c].response = AloneResponse(c)
            /\ "seen" \in DOMAIN requests[c]
            /\ requests[c].seen = c

\* ------------------------------------------------------------------ C21
\* a search without OpenAI that carries a price_range: every list merged is
\* the simple mock list of a platform adapter or of the fallback
RangedMock ==
    /\ Done("search_products")
    /\ "openai" \notin available_apis
    /\ PriceRangeOf # NoRange
    /\ PriceRangeOf[1] <= PriceRangeOf[2]

\* C21: when the simple mock list is built with a price_range
\* (min_price, max_price) where min_price <= max_price, the price of every
\* generated result lies within [min_price, max_price], for every
\* max_results.
C21_MockPricesWithinRange ==
    RangedMock =>
        \A i \in DOMAIN merged :
            /\ PriceRangeOf[1] <= merged[i].price
            /\ merged[i].price <= PriceRangeOf[2]

\* ------------------------------------------------------------------ C22
\* savings = average_price - best_deal.get("price", 0) times the number of
\* candidates, which has the sign of savings (average_price is
\* price_sum / total_results)
SavingsTimesTotal(comparison) ==
    comparison.price_sum - comparison.best_price * comparison.total_results

\* C22: in the comparison block of a find_best_deal result, savings is
\* average_price minus the returned deal's price and is never negative, and
\* savings_percentage (savings / average_price * 100, or 0 when average_price
\* is not positive) lies between 0 and 100, for every list of gathered
\* candidates, candidates that lack a price included.
C22_SavingsNeverNegative ==
    FoundDeal =>
        LET comparison == Out.comparison
        IN /\ comparison.best_price = PriceOr0(Out)
           /\ comparison.price_sum = SumPrices(merged, Len(merged))
           /\ comparison.total_results = Len(merged)
           /\ SavingsTimesTotal(comparison) >= 0
           /\ comparison.price_sum > 0 =>
                 SavingsTimesTotal(comparison) <= comparison.price_sum

\* ------------------------------------------------------------------ C23
DaysOf == OptGet(call.options, "days", 30)

\* the result of a get_price_history call is as described for `days` days
HistoryAsDescribed(days) ==
    LET history == Out.price_history
        average == Out.average_price
    IN /\ Len(history) = days
       /\ \A i, j \in DOMAIN history : i < j => StrLess(history[i].date, history[j].date)
       /\ Out.lowest_price * average.entries <= average.total
       /\ average.total <= Out.highest_price * average.entries
       /\ Out.current_price = IF history = <<>>
                              THEN BasePrice(call.product_id)
                              ELSE history[Len(history)].price

\* C23: for every days >= 0, get_price_history returns a result without
\* raising: price_history has exactly `days` entries ordered oldest date
\* first, lowest_price <= average_price <= highest_price, and current_price
\* is the price of the last (most recent) entry, or the base price when the
\* history is empty.
C23_HistoryForEveryDays ==
    (Done("get_price_history") /\ DaysOf >= 0) =>
        Returned /\ HistoryAsDescribed(DaysOf)

\* ------------------------------------------------------------------ C24
\* the upload folder holds a file saved by client c's request
HoldsUploadOf(c) == \E n \in DOMAIN uploads : uploads[n] = c

\* C24: every /detect request that uploads an image file eventually leaves
\* no file of that request in the upload folder: the saved upload is removed
\* once the request has been answered, whether detection succeeded, returned
\* no products, or ended in an error response.
C24_UploadEventuallyRemoved ==
    /\ \A c \in Clients : HoldsUploadOf(c) ~> ~HoldsUploadOf(c)
    /\ [](\A c \in Clients : requests[c].pc = "done" => ~HoldsUploadOf(c))

====
